---------------------------- MODULE Spec2Model ----------------------------
(***************************************************************************)
(* RBAC core of CareConnect: the relational store (users, permissions,     *)
(* roles, role_permissions, user_roles), the DatabaseStorage RBAC methods, *)
(* the /api/admin route handlers with their permission gate, the seed-rbac *)
(* script (catalog, system roles, legacy-role backfill) and the client's   *)
(* permission cache with the login flow that fills it.                     *)
(*                                                                         *)
(* The specifications share the variables:                                 *)
(*   Spec            the API server running on a freshly seeded store;     *)
(*   ResolveSpec     one getUserPermissions call, statement by statement,  *)
(*                   beside the handlers that write one join row;          *)
(*   SeedSpec        the seed-rbac script running (repeatedly) on a store  *)
(*                   that holds only users, beside a rename of a role;     *)
(*   SeedRetrySpec   the script run again after runs that failed;          *)
(*   ScenarioSpec    the storage methods called on a store without roles;  *)
(*   PermissionsSpec the exported functions of the client's permissions.ts;*)
(*   ClientSpec      the login flow of a browser against the API server.   *)
(*                                                                         *)
(* Tables without a uniqueness constraint on the columns of interest are   *)
(* multisets of rows: a bag is a function from a row's columns (its uuid   *)
(* primary key left out, it is never read) to the number of such rows.     *)
(***************************************************************************)
EXTENDS Integers, Sequences, FiniteSets, TLC

VARIABLES
    users,            \* users table: id -> [role (legacy enum), isActive]
    permissions,      \* permissions table: row i has id i and name permissions[i]
    roles,            \* roles table: id -> [name, isSystemRole]
    nextRoleId,       \* next fresh roles.id (gen_random_uuid never repeats)
    rolePermissions,  \* role_permissions table: bag of <<roleId, permissionId>>
    userRoles,        \* user_roles table: bag of <<userId, roleId, assignedBy>>
    pendingDeletes,   \* deleteRole calls between their SELECT and their DELETE: bag of role ids
    resp,             \* the response to the request handled last
    nreq,             \* number of requests received so far
    resolveCall,      \* a getUserPermissions call in flight: position, user, rows read
    seedPc,           \* seedRBAC: position in the script
    seedIdx,          \* seedRBAC: index of the current ROLES entry / user
    seedRole,         \* seedRBAC: id of the role row just inserted (0: no row returned)
    permissionMap,    \* seedRBAC: permission name -> id
    allRoles,         \* seedRBAC: the roles rows read for the roleMap: id -> name
    roleMap,          \* seedRBAC: normalised role name -> id
    allUsers,         \* seedRBAC: the users read before the backfill loop
    seedRuns,         \* number of seedRBAC runs started
    userPermissionsCache, \* client, permissions.ts: the module-level array
    localStorage,     \* client: the browser's localStorage, key -> value
    loginFlow,        \* client, login.tsx: position in the login flow and data.user.id
    consoleAccess     \* client: the last canAccessAdminConsole call, its argument and result

store == <<users, permissions, roles, nextRoleId, rolePermissions, userRoles>>
seedVars == <<seedPc, seedIdx, seedRole, permissionMap, allRoles, roleMap, allUsers, seedRuns>>
apiVars == <<pendingDeletes, resp, nreq, resolveCall>>
clientVars == <<userPermissionsCache, localStorage, loginFlow, consoleAccess>>
vars == <<users, permissions, roles, nextRoleId, rolePermissions, userRoles,
          pendingDeletes, resp, nreq, resolveCall,
          seedPc, seedIdx, seedRole, permissionMap, allRoles, roleMap, allUsers, seedRuns,
          userPermissionsCache, localStorage, loginFlow, consoleAccess>>

---------------------------------------------------------------------------
(* Bounds *)

\* requests the API server receives in one behaviour
MaxRequests == 2
\* runs of the seed script in one behaviour
MaxSeedRuns == 2
\* storage calls made on the store without roles in one behaviour
MaxCalls == 6

---------------------------------------------------------------------------
(* The catalog of seed-rbac.ts *)

PERMISSIONS ==
    << "patients.view", "patients.create", "patients.edit", "patients.deactivate",
       "appointments.view", "appointments.create", "appointments.edit",
       "appointments.cancel", "appointments.reschedule",
       "schedule.view_own", "schedule.view_all", "schedule.manage",
       "reports.view", "reports.export", "reports.advanced",
       "clinical.notes.view", "clinical.notes.edit", "clinical.prescriptions.create",
       "admin.view_console", "admin.manage_users", "admin.manage_roles",
       "admin.manage_clinics", "admin.view_audit_logs", "admin.system_settings" >>

ROLES ==
    << [name |-> "Master Admin", isSystemRole |-> TRUE,
        permissions |-> {PERMISSIONS[i] : i \in DOMAIN PERMISSIONS}],
       [name |-> "Clinic Admin", isSystemRole |-> TRUE,
        permissions |-> {"patients.view", "patients.create", "patients.edit", "patients.deactivate",
                         "appointments.view", "appointments.create", "appointments.edit",
                         "appointments.cancel", "appointments.reschedule",
                         "schedule.view_all", "schedule.manage",
                         "reports.view", "reports.export", "reports.advanced",
                         "admin.view_console", "admin.manage_users"}],
       [name |-> "Doctor", isSystemRole |-> TRUE,
        permissions |-> {"patients.view", "patients.create", "patients.edit",
                         "appointments.view", "appointments.create", "appointments.edit",
                         "appointments.cancel", "appointments.reschedule",
                         "schedule.view_all",
                         "reports.view", "reports.export",
                         "clinical.notes.view", "clinical.notes.edit",
                         "clinical.prescriptions.create"}],
       [name |-> "Nurse", isSystemRole |-> TRUE,
        permissions |-> {"patients.view", "patients.edit",
                         "appointments.view", "appointments.create", "appointments.reschedule",
                         "schedule.view_all",
                         "clinical.notes.view"}],
       [name |-> "Receptionist", isSystemRole |-> TRUE,
        permissions |-> {"patients.view", "patients.create", "patients.edit",
                         "appointments.view", "appointments.create", "appointments.reschedule",
                         "schedule.view_all"}],
       [name |-> "Analytics Only", isSystemRole |-> TRUE,
        permissions |-> {"patients.view",
                         "appointments.view",
                         "schedule.view_all",
                         "reports.view", "reports.export", "reports.advanced"}],
       [name |-> "Staff", isSystemRole |-> TRUE,
        permissions |-> {"patients.view",
                         "appointments.view",
                         "schedule.view_own"}] >>

\* the legacy enum of users.role
roleEnum ==
    {"master-admin", "admin", "doctor", "nurse", "staff", "receptionist", "analytics-only"}

---------------------------------------------------------------------------
(* Rows and bags of rows *)

EmptyBag == [e \in {} |-> 0]

\* number of rows of bag B with columns e
Copies(B, e) == IF e \in DOMAIN B THEN B[e] ELSE 0

\* INSERT one row with columns e
BagInsert(B, e) ==
    [x \in DOMAIN B \cup {e} |-> IF x = e THEN Copies(B, e) + 1 ELSE B[x]]

\* DELETE ... WHERE: drop every row whose columns are in S
BagDelete(B, S) == [x \in DOMAIN B \ S |-> B[x]]

RECURSIVE BagCount(_, _)
\* rowCount of a statement touching the rows of B whose columns are in S
BagCount(B, S) ==
    IF DOMAIN B \cap S = {} THEN 0
    ELSE LET e == CHOOSE x \in DOMAIN B \cap S : TRUE
         IN  B[e] + BagCount(B, S \ {e})

\* id of the permissions row named n (0: no such row); permissions.name is unique
\* a lookup that takes the first row whatever its name
PermissionIdOfFirstRow(n) ==
    IF Len(permissions) > 0 THEN 1 ELSE 0

PermissionIdOf(n) ==
    IF \E i \in DOMAIN permissions : permissions[i] = n
    THEN CHOOSE i \in DOMAIN permissions : permissions[i] = n
    ELSE 0

---------------------------------------------------------------------------
(* DatabaseStorage: the RBAC methods *)

\* the join with its WHERE users.id = userId left out
JoinedRowsAnyUser(userId) ==
    LET held == {k[2] : k \in DOMAIN userRoles} \cap DOMAIN roles
    IN  {q \in DOMAIN rolePermissions : q[1] \in held /\ q[2] \in DOMAIN permissions}

\* the role_permissions rows the five-table join of getUserPermissions reaches:
\* those of an existing role that a user_roles row of the (existing) user names,
\* with an existing permission
JoinedRows(userId) ==
    LET held == {k[2] : k \in {x \in DOMAIN userRoles : x[1] = userId}} \cap DOMAIN roles
    IN  IF userId \in DOMAIN users
        THEN {q \in DOMAIN rolePermissions : q[1] \in held /\ q[2] \in DOMAIN permissions}
        ELSE {}

\* rows of the join that come from the role_permissions rows with columns q:
\* one per pair of such a row and a user_roles row of the user for that role
JoinCount(userId, q) ==
    rolePermissions[q] *
        BagCount(userRoles, {k \in DOMAIN userRoles : k[1] = userId /\ k[2] = q[1]})

RECURSIVE SumJoinCount(_, _)
SumJoinCount(userId, Q) ==
    IF Q = {} THEN 0
    ELSE LET q == CHOOSE x \in Q : TRUE
         IN  JoinCount(userId, q) + SumJoinCount(userId, Q \ {q})

\* the names a resolver would return that keeps the role_permissions rows it
\* read at startup (the seeded ones)
ResultNamesAtStartup(userId) ==
    LET held == {k[2] : k \in {x \in DOMAIN userRoles : x[1] = userId}} \cap DOMAIN roles
    IN  {PERMISSIONS[p] : p \in {x \in DOMAIN PERMISSIONS :
                                    \E i \in held \cap DOMAIN ROLES :
                                        PERMISSIONS[x] \in ROLES[i].permissions}}

\* the distinct values of results.map(r => r.permission)
ResultNames(userId) == {permissions[q[2]] : q \in JoinedRows(userId)}

\* results.map(r => r.permission): the bag of permission names the query returns
QueryResults(userId) ==
    [n \in ResultNames(userId) |->
        SumJoinCount(userId, {q \in JoinedRows(userId) : permissions[q[2]] = n})]

\* the array as returned without the Set: a name once per joined row
GetUserPermissionsNoDedup(userId) == QueryResults(userId)

\* Array.from(new Set(results.map(...))): the returned array, as the bag of its elements
getUserPermissions(userId) ==
    [n \in ResultNames(userId) |-> 1]

\* Array.prototype.includes on a returned array
includes(arr, name) == name \in DOMAIN arr

\* column default of roles.is_system_role applied to an InsertRole
RoleRow(role) ==
    [name |-> role.name,
     isSystemRole |-> IF "isSystemRole" \in DOMAIN role THEN role.isSystemRole ELSE FALSE]

\* the unique constraint on roles.name rejects the name for row id (0: a new row)
\* a roles table without the unique constraint on name
RoleNameNeverTaken(name, id) == FALSE

RoleNameTaken(name, id) ==
    \E r \in DOMAIN roles : r # id /\ roles[r].name = name

\* createRole: the roles table after the INSERT
createRole(role) ==
    [r \in DOMAIN roles \cup {nextRoleId} |->
        IF r = nextRoleId THEN RoleRow(role) ELSE roles[r]]

\* updateRole: the row after UPDATE roles SET <the fields present> WHERE id
\* an update that sets the name only
updateRoleNameOnly(id, role) ==
    [name |-> IF "name" \in DOMAIN role THEN role.name ELSE roles[id].name,
     isSystemRole |-> roles[id].isSystemRole]

updateRole(id, role) ==
    [name |-> IF "name" \in DOMAIN role THEN role.name ELSE roles[id].name,
     isSystemRole |-> IF "isSystemRole" \in DOMAIN role
                      THEN role.isSystemRole ELSE roles[id].isSystemRole]

\* the early return of deleteRole with the isSystemRole test left out
deleteRoleRefusedMissingOnly(id) ==
    id \notin DOMAIN roles

\* deleteRole, first statement: the early return false
deleteRoleRefused(id) ==
    id \notin DOMAIN roles \/ roles[id].isSystemRole

\* the DELETE of deleteRole with its WHERE left out
deleteRoleRowsNoWhere(id) == DOMAIN roles

\* deleteRole, second statement: the rows DELETE FROM roles WHERE id removes
deleteRoleRows(id) == DOMAIN roles \cap {id}

\* ON DELETE CASCADE of role_permissions.role_id for the deleted roles D
\* a foreign key without ON DELETE CASCADE that lets the rows stay
rolePermissionsNoCascade(D) == rolePermissions

rolePermissionsCascade(D) ==
    BagDelete(rolePermissions, {q \in DOMAIN rolePermissions : q[1] \in D})

\* ON DELETE CASCADE of user_roles.role_id for the deleted roles D
userRolesCascade(D) ==
    BagDelete(userRoles, {k \in DOMAIN userRoles : k[2] \in D})

\* assignPermissionToRole: the table after the INSERT (no unique constraint on the pair)
\* an INSERT of the permission for every role
assignPermissionToEveryRole(roleId, permissionId) ==
    [q \in DOMAIN rolePermissions \cup {<<r, permissionId>> : r \in DOMAIN roles} |->
        Copies(rolePermissions, q) + (IF q[2] = permissionId THEN 1 ELSE 0)]

assignPermissionToRole(roleId, permissionId) ==
    BagInsert(rolePermissions, <<roleId, permissionId>>)

\* the rows removePermissionFromRole's WHERE matches
\* a DELETE whose WHERE names the role only
removePermissionRowsOfRole(roleId, permissionId) ==
    {q \in DOMAIN rolePermissions : q[1] = roleId}

removePermissionRows(roleId, permissionId) ==
    {q \in DOMAIN rolePermissions : q[1] = roleId /\ q[2] = permissionId}

\* assignRoleToUser: the table after the INSERT (no unique constraint on the pair)
\* an assignment that replaces the rows the user has
assignRoleToUserReplacing(userId, roleId, assignedBy) ==
    [k \in {x \in DOMAIN userRoles : x[1] # userId} \cup {<<userId, roleId, assignedBy>>} |->
        IF k[1] = userId THEN 1 ELSE userRoles[k]]

assignRoleToUser(userId, roleId, assignedBy) ==
    BagInsert(userRoles, <<userId, roleId, assignedBy>>)

\* the rows removeRoleFromUser's WHERE matches
\* a DELETE whose WHERE names the user only
removeRoleRowsOfUser(userId, roleId) ==
    {k \in DOMAIN userRoles : k[1] = userId}

removeRoleRows(userId, roleId) ==
    {k \in DOMAIN userRoles : k[1] = userId /\ k[2] = roleId}

---------------------------------------------------------------------------
(* seed-rbac.ts: the legacy-role mapping *)

\* r.name.toLowerCase().replace(/[\s-]/g, '_'), on the role names of the model
NormalizedName ==
    ("Master Admin" :> "master_admin") @@ ("Clinic Admin" :> "clinic_admin") @@
    ("Doctor" :> "doctor") @@ ("Nurse" :> "nurse") @@
    ("Receptionist" :> "receptionist") @@ ("Analytics Only" :> "analytics_only") @@
    ("Staff" :> "staff") @@ ("Custom" :> "custom") @@ ("doctor" :> "doctor")

\* the switch on user.role: the roleMap key looked up for a legacy role
LegacyRoleKey(role) ==
    CASE role = "master-admin" -> "master_admin"
      [] role = "admin" -> "clinic_admin"
      [] role = "doctor" -> "doctor"
      [] role = "nurse" -> "nurse"
      [] role = "receptionist" -> "receptionist"
      [] role = "analytics-only" -> "analytics_only"
      [] OTHER -> "staff"

\* the ids a Map built from the given roles rows can hold under key (a later
\* row with the same key replaces an earlier one; the row order is the store's)
RoleMapCandidates(rs, key) ==
    {r \in DOMAIN rs : NormalizedName[rs[r].name] = key}

---------------------------------------------------------------------------
(* The store after the schema is created, users exist and seed-rbac has run once *)

NoResponse == [op |-> "none", status |-> 0, perms |-> EmptyBag]

\* no getUserPermissions call is followed statement by statement
NoCall == [pc |-> "idle", userId |-> 0, result |-> EmptyBag]

\* the users of the model: a master administrator and a clinic administrator
BootstrapUsers ==
    [u \in {1, 2} |-> [role |-> IF u = 1 THEN "master-admin" ELSE "admin", isActive |-> TRUE]]

SeededRoles ==
    [i \in DOMAIN ROLES |-> [name |-> ROLES[i].name, isSystemRole |-> ROLES[i].isSystemRole]]

SeededRolePermissions ==
    [q \in {<<i, p>> \in (DOMAIN ROLES) \X (DOMAIN PERMISSIONS) :
                PERMISSIONS[p] \in ROLES[i].permissions} |-> 1]

SeededUserRoles(us) ==
    [k \in {<<u, CHOOSE r \in DOMAIN SeededRoles :
                    r \in RoleMapCandidates(SeededRoles, LegacyRoleKey(us[u].role)), 0>> :
                u \in DOMAIN us} |-> 1]

\* the browser before the application is used: the module-level array as
\* initialised, nothing stored, the login form shown
NoLogin == [pc |-> "idle", user |-> 0]
NoConsoleCall == [userRole |-> "none", result |-> FALSE]

ClientInit ==
    /\ userPermissionsCache = EmptyBag
    /\ localStorage = EmptyBag
    /\ loginFlow = NoLogin
    /\ consoleAccess = NoConsoleCall

\* the script has run once and is not running
SeedIdle ==
    /\ seedPc = "done"
    /\ seedIdx = Len(ROLES) + 1
    /\ seedRole = 0
    /\ permissionMap = EmptyBag
    /\ allRoles = EmptyBag
    /\ roleMap = EmptyBag
    /\ allUsers = EmptyBag
    /\ seedRuns = 1

Init ==
    /\ users = BootstrapUsers
    /\ permissions = PERMISSIONS
    /\ roles = SeededRoles
    /\ nextRoleId = Len(ROLES) + 1
    /\ rolePermissions = SeededRolePermissions
    /\ userRoles = SeededUserRoles(users)
    /\ pendingDeletes = EmptyBag
    /\ resp = NoResponse
    /\ nreq = 0
    /\ resolveCall = NoCall
    /\ SeedIdle
    /\ ClientInit

---------------------------------------------------------------------------
(* routes.ts: the /api/admin handlers.  A handler's gate query and its      *)
(* storage call are one step; deleteRole, which issues two statements, is   *)
(* two steps, and other requests are handled between them.                  *)

\* the requests of the model
Callers == {1, 2}
ReqUserIds == {1, 2, 3}
\* "Master Admin", "Clinic Admin", and the id the first role created over the API gets
ReqRoleIds == {1, 2, Len(ROLES) + 1}
\* "patients.view", "admin.manage_roles", and an id no permission has
ReqPermissionIds == {1, 21, Len(PERMISSIONS) + 1}
\* deletion is requested for every seeded role as well
DeleteRoleIds == DOMAIN ROLES \cup ReqRoleIds
\* 0 stands for a body without the field
Missing == 0
CreateBodies ==
    {[name |-> "Custom"], [name |-> "Custom", isSystemRole |-> TRUE], [isSystemRole |-> TRUE]}
UpdateBodies ==
    {[name |-> "Custom"], [isSystemRole |-> TRUE], [isSystemRole |-> FALSE]}

\* authenticate: the token's user is found
authenticate(c) == c \in DOMAIN users

\* every handler looking for the permission of the users handlers
RequiredPermissionCopied(op) ==
    IF op = "getUserPermissions" THEN "admin.view_console" ELSE "admin.manage_users"

\* the permission name each handler looks for in the caller's permissions
RequiredPermission(op) ==
    CASE op = "getUsers" -> "admin.manage_users"
      [] op = "createRole" -> "admin.manage_roles"
      [] op = "updateRole" -> "admin.manage_roles"
      [] op = "deleteRole" -> "admin.manage_roles"
      [] op = "assignPermission" -> "admin.manage_roles"
      [] op = "removePermission" -> "admin.manage_roles"
      [] op = "assignRole" -> "admin.manage_users"
      [] op = "removeRole" -> "admin.manage_users"
      [] op = "getUserPermissions" -> "admin.view_console"
      [] op = "updateUser" -> "admin.manage_users"

\* a gate that only looks whether the caller has any permission
AllowedAnyPermission(op, c) == DOMAIN getUserPermissions(c) # {}

\* userPermissions.includes(...) on storage.getUserPermissions(req.user!.id)
Allowed(op, c) == includes(getUserPermissions(c), RequiredPermission(op))

\* a request arrives; handlers do not write permissions
ReceiveRequest ==
    /\ nreq < MaxRequests
    /\ nreq' = nreq + 1
    /\ UNCHANGED permissions
    /\ UNCHANGED seedVars
    /\ UNCHANGED resolveCall

\* a request arrives at a handler that does not write users either
Receive ==
    /\ ReceiveRequest
    /\ UNCHANGED users
    /\ UNCHANGED clientVars

Reply(op, status) == resp' = [op |-> op, status |-> status, perms |-> EmptyBag]

\* a response sent without a write to the store
Rejected(op, status) ==
    /\ Reply(op, status)
    /\ UNCHANGED <<roles, nextRoleId, rolePermissions, userRoles, pendingDeletes>>

\* the authenticate middleware answers a request that carries no valid token
\* of an existing user; no handler runs
AuthenticateReject ==
    /\ Receive
    /\ Rejected("authenticate", 401)

\* a handler behind authenticate and its permission gate: a caller without
\* the permission is answered 403, for another the rest of the handler runs
Gated(op, c, handler) ==
    /\ authenticate(c)
    /\ IF ~Allowed(op, c) THEN Rejected(op, 403) ELSE handler

\* GET /api/admin/users, after the gate
GetUsersHandler == Rejected("getUsers", 200)

GetUsersRoute(c) ==
    /\ Receive
    /\ Gated("getUsers", c, GetUsersHandler)

\* POST /api/admin/roles, after the gate
CreateRoleHandler(body) ==
    IF "name" \notin DOMAIN body THEN Rejected("createRole", 400)
    ELSE IF RoleNameTaken(body.name, 0) THEN Rejected("createRole", 500)
    ELSE /\ Reply("createRole", 201)
         /\ roles' = createRole(body)
         /\ nextRoleId' = nextRoleId + 1
         /\ UNCHANGED <<rolePermissions, userRoles, pendingDeletes>>

CreateRoleRoute(c, body) ==
    /\ Receive
    /\ Gated("createRole", c, CreateRoleHandler(body))

\* PUT /api/admin/roles/:id, after the gate
UpdateRoleHandler(id, body) ==
    IF id \notin DOMAIN roles THEN Rejected("updateRole", 404)
    ELSE IF "name" \in DOMAIN body /\ RoleNameTaken(body.name, id)
         THEN Rejected("updateRole", 500)
    ELSE /\ Reply("updateRole", 200)
         /\ roles' = [roles EXCEPT ![id] = updateRole(id, body)]
         /\ UNCHANGED <<nextRoleId, rolePermissions, userRoles, pendingDeletes>>

UpdateRoleRoute(c, id, body) ==
    /\ Receive
    /\ Gated("updateRole", c, UpdateRoleHandler(id, body))

\* DELETE /api/admin/roles/:id, after the gate and up to the SELECT of deleteRole
DeleteRoleHandler(id) ==
    IF deleteRoleRefused(id) THEN Rejected("deleteRole", 400)
    ELSE /\ pendingDeletes' = BagInsert(pendingDeletes, id)
         /\ UNCHANGED <<roles, nextRoleId, rolePermissions, userRoles, resp>>

DeleteRoleRoute(c, id) ==
    /\ Receive
    /\ Gated("deleteRole", c, DeleteRoleHandler(id))

\* DELETE /api/admin/roles/:id, from the DELETE of deleteRole to the response
DeleteRoleExec(id) ==
    /\ Copies(pendingDeletes, id) > 0
    /\ pendingDeletes' = [x \in {y \in DOMAIN pendingDeletes : y # id \/ pendingDeletes[y] > 1} |->
                              IF x = id THEN pendingDeletes[x] - 1 ELSE pendingDeletes[x]]
    /\ LET D == deleteRoleRows(id)
       IN  /\ roles' = [r \in DOMAIN roles \ D |-> roles[r]]
           /\ rolePermissions' = rolePermissionsCascade(D)
           /\ userRoles' = userRolesCascade(D)
           /\ Reply("deleteRole", IF Cardinality(D) > 0 THEN 200 ELSE 400)
    /\ UNCHANGED <<users, permissions, nextRoleId, nreq, resolveCall>>
    /\ UNCHANGED seedVars
    /\ UNCHANGED clientVars

\* POST /api/admin/roles/:roleId/permissions, after the gate
AssignPermissionHandler(roleId, permissionId) ==
    IF permissionId = Missing THEN Rejected("assignPermission", 400)
    ELSE IF roleId \notin DOMAIN roles \/ permissionId \notin DOMAIN permissions
         THEN Rejected("assignPermission", 500)
    ELSE /\ Reply("assignPermission", 201)
         /\ rolePermissions' = assignPermissionToRole(roleId, permissionId)
         /\ UNCHANGED <<roles, nextRoleId, userRoles, pendingDeletes>>

AssignPermissionRoute(c, roleId, permissionId) ==
    /\ Receive
    /\ Gated("assignPermission", c, AssignPermissionHandler(roleId, permissionId))

\* DELETE /api/admin/roles/:roleId/permissions/:permissionId, after the gate
RemovePermissionHandler(roleId, permissionId) ==
    LET rows == removePermissionRows(roleId, permissionId)
    IN  /\ Reply("removePermission", IF BagCount(rolePermissions, rows) > 0 THEN 200 ELSE 404)
        /\ rolePermissions' = BagDelete(rolePermissions, rows)
        /\ UNCHANGED <<roles, nextRoleId, userRoles, pendingDeletes>>

RemovePermissionRoute(c, roleId, permissionId) ==
    /\ Receive
    /\ Gated("removePermission", c, RemovePermissionHandler(roleId, permissionId))

\* POST /api/admin/users/:userId/roles, after the gate; assignedBy is the caller
AssignRoleHandler(c, userId, roleId) ==
    IF roleId = Missing THEN Rejected("assignRole", 400)
    ELSE IF userId \notin DOMAIN users \/ roleId \notin DOMAIN roles
         THEN Rejected("assignRole", 500)
    ELSE /\ Reply("assignRole", 201)
         /\ userRoles' = assignRoleToUser(userId, roleId, c)
         /\ UNCHANGED <<roles, nextRoleId, rolePermissions, pendingDeletes>>

AssignRoleRoute(c, userId, roleId) ==
    /\ Receive
    /\ Gated("assignRole", c, AssignRoleHandler(c, userId, roleId))

\* DELETE /api/admin/users/:userId/roles/:roleId, after the gate
RemoveRoleHandler(userId, roleId) ==
    LET rows == removeRoleRows(userId, roleId)
    IN  /\ Reply("removeRole", IF BagCount(userRoles, rows) > 0 THEN 200 ELSE 404)
        /\ userRoles' = BagDelete(userRoles, rows)
        /\ UNCHANGED <<roles, nextRoleId, rolePermissions, pendingDeletes>>

RemoveRoleRoute(c, userId, roleId) ==
    /\ Receive
    /\ Gated("removeRole", c, RemoveRoleHandler(userId, roleId))

\* GET /api/admin/users/:userId/permissions, after the gate
\* a handler that gives a user found without any assignment the role of its
\* legacy role before it resolves
GetUserPermissionsHandlerBackfilling(userId) ==
    /\ resp' = [op |-> "getUserPermissions", status |-> 200,
                perms |-> getUserPermissions(userId)]
    /\ userRoles' =
          IF userId \in DOMAIN users /\ \A k \in DOMAIN userRoles : k[1] # userId
          THEN [k \in DOMAIN userRoles \cup
                        {<<userId, r, 0>> :
                            r \in RoleMapCandidates(roles, LegacyRoleKey(users[userId].role))} |->
                    IF k[1] = userId THEN 1 ELSE userRoles[k]]
          ELSE userRoles
    /\ UNCHANGED <<roles, nextRoleId, rolePermissions, pendingDeletes>>

GetUserPermissionsHandler(userId) ==
    /\ resp' = [op |-> "getUserPermissions", status |-> 200,
                perms |-> getUserPermissions(userId)]
    /\ UNCHANGED <<roles, nextRoleId, rolePermissions, userRoles, pendingDeletes>>

GetUserPermissionsRoute(c, userId) ==
    /\ Receive
    /\ Gated("getUserPermissions", c, GetUserPermissionsHandler(userId))

\* the bodies of PUT /api/admin/users/:id of the model: a deactivation
UserUpdateBodies == {[isActive |-> FALSE]}

\* storage.updateUser: the row after .set(updateUser)
updateUser(id, body) ==
    [f \in DOMAIN users[id] |-> IF f \in DOMAIN body THEN body[f] ELSE users[id][f]]

\* PUT /api/admin/users/:id, after the gate
UpdateUserHandler(id, body) ==
    IF id \notin DOMAIN users THEN Rejected("updateUser", 404) /\ UNCHANGED users
    ELSE /\ Reply("updateUser", 200)
         /\ users' = [users EXCEPT ![id] = updateUser(id, body)]
         /\ UNCHANGED <<roles, nextRoleId, rolePermissions, userRoles, pendingDeletes>>

UpdateUserRoute(c, id, body) ==
    /\ ReceiveRequest
    /\ UNCHANGED clientVars
    /\ authenticate(c)
    /\ IF ~Allowed("updateUser", c) THEN Rejected("updateUser", 403) /\ UNCHANGED users
       ELSE UpdateUserHandler(id, body)

\* POST /api/auth/login with the email of user u and a password that is the
\* user's (valid) or not: 200 carries a token
LoginHandler(u, valid) ==
    IF u \notin DOMAIN users THEN Rejected("login", 401)
    ELSE IF ~valid THEN Rejected("login", 401)
    ELSE Rejected("login", 200)

LoginRoute(u, valid) ==
    /\ Receive
    /\ LoginHandler(u, valid)

Next ==
    \/ AuthenticateReject
    \/ \E u \in ReqUserIds, valid \in BOOLEAN : LoginRoute(u, valid)
    \/ \E c \in Callers, id \in ReqUserIds, body \in UserUpdateBodies : UpdateUserRoute(c, id, body)
    \/ \E c \in Callers : GetUsersRoute(c)
    \/ \E c \in Callers, body \in CreateBodies : CreateRoleRoute(c, body)
    \/ \E c \in Callers, id \in ReqRoleIds, body \in UpdateBodies : UpdateRoleRoute(c, id, body)
    \/ \E c \in Callers, id \in DeleteRoleIds : DeleteRoleRoute(c, id)
    \/ \E id \in DeleteRoleIds : DeleteRoleExec(id)
    \/ \E c \in Callers, r \in ReqRoleIds, p \in ReqPermissionIds \cup {Missing} :
          AssignPermissionRoute(c, r, p)
    \/ \E c \in Callers, r \in ReqRoleIds, p \in ReqPermissionIds :
          RemovePermissionRoute(c, r, p)
    \/ \E c \in Callers, u \in ReqUserIds, r \in ReqRoleIds \cup {Missing} :
          AssignRoleRoute(c, u, r)
    \/ \E c \in Callers, u \in ReqUserIds, r \in ReqRoleIds : RemoveRoleRoute(c, u, r)
    \/ \E c \in Callers, u \in ReqUserIds : GetUserPermissionsRoute(c, u)

Spec == Init /\ [][Next]_vars

---------------------------------------------------------------------------
(* storage.getUserPermissions followed statement by statement, while the    *)
(* handlers that write one row of user_roles or role_permissions run.  The  *)
(* method issues one SELECT, which the database runs on one snapshot of the *)
(* committed rows.                                                          *)

\* what a resolver would read that took the user's roles from an earlier read
\* (the rows the seed wrote) and joined them with the role_permissions of now
ResolveQueryResultTwoReads(userId) ==
    [n \in {permissions[q[2]] :
              q \in {x \in DOMAIN rolePermissions :
                       /\ \E k \in DOMAIN SeededUserRoles(BootstrapUsers) :
                             k[1] = userId /\ k[2] = x[1]
                       /\ x[2] \in DOMAIN permissions}} |-> 1]

\* the result of the method's SELECT and its new Set / Array.from
ResolveQueryResult(userId) == getUserPermissions(userId)

\* getUserPermissions(userId) is called
ResolveStart(userId) ==
    /\ resolveCall.pc = "idle"
    /\ resolveCall' = [pc |-> "started", userId |-> userId, result |-> EmptyBag]
    /\ UNCHANGED store
    /\ UNCHANGED <<pendingDeletes, resp, nreq>>
    /\ UNCHANGED seedVars
    /\ UNCHANGED clientVars

\* its SELECT runs
ResolveQuery ==
    /\ resolveCall.pc = "started"
    /\ resolveCall' = [resolveCall EXCEPT !.pc = "queried",
                                          !.result = ResolveQueryResult(resolveCall.userId)]
    /\ UNCHANGED store
    /\ UNCHANGED <<pendingDeletes, resp, nreq>>
    /\ UNCHANGED seedVars
    /\ UNCHANGED clientVars

\* it returns the array to its caller
ResolveReturn ==
    /\ resolveCall.pc = "queried"
    /\ resolveCall' = [resolveCall EXCEPT !.pc = "idle"]
    /\ UNCHANGED store
    /\ UNCHANGED <<pendingDeletes, resp, nreq>>
    /\ UNCHANGED seedVars
    /\ UNCHANGED clientVars

ResolveNext ==
    \/ \E u \in ReqUserIds : ResolveStart(u)
    \/ ResolveQuery
    \/ ResolveReturn
    \/ \E c \in Callers, r \in ReqRoleIds, p \in ReqPermissionIds :
          AssignPermissionRoute(c, r, p)
    \/ \E c \in Callers, r \in ReqRoleIds, p \in ReqPermissionIds :
          RemovePermissionRoute(c, r, p)
    \/ \E c \in Callers, u \in ReqUserIds, r \in ReqRoleIds : AssignRoleRoute(c, u, r)
    \/ \E c \in Callers, u \in ReqUserIds, r \in ReqRoleIds : RemoveRoleRoute(c, u, r)

ResolveSpec == Init /\ [][ResolveNext]_vars

---------------------------------------------------------------------------
(* seed-rbac.ts: seedRBAC, one step per awaited statement *)

\* the users the script finds: two users with any legacy roles
SeedUsers ==
    [{1, 2} -> [role : roleEnum, isActive : {TRUE}]]

SeedInit ==
    /\ users \in SeedUsers
    /\ permissions = << >>
    /\ roles = EmptyBag
    /\ nextRoleId = 1
    /\ rolePermissions = EmptyBag
    /\ userRoles = EmptyBag
    /\ pendingDeletes = EmptyBag
    /\ resp = NoResponse
    /\ nreq = 0
    /\ resolveCall = NoCall
    /\ seedPc = "idle"
    /\ seedIdx = 0
    /\ seedRole = 0
    /\ permissionMap = EmptyBag
    /\ allRoles = EmptyBag
    /\ roleMap = EmptyBag
    /\ allUsers = EmptyBag
    /\ seedRuns = 0
    /\ ClientInit

\* INSERT several rows, one per element of S
BagInsertAll(B, S) ==
    [x \in DOMAIN B \cup S |-> Copies(B, x) + (IF x \in S THEN 1 ELSE 0)]

\* the loop over ROLES moves on to entry i, or leaves the loop
SeedNextRole(i) ==
    /\ seedIdx' = i
    /\ seedPc' = IF i <= Len(ROLES) THEN "insertRole" ELSE "selectRoles"

\* 1. db.insert(permissions).values(PERMISSIONS).onConflictDoNothing():
\* the unique constraint on permissions.name skips the names already there
SeedInsertPermissions ==
    /\ seedPc \in {"idle", "done", "failed"}
    /\ seedRuns < MaxSeedRuns
    /\ seedRuns' = seedRuns + 1
    /\ permissions' = permissions \o
          SelectSeq(PERMISSIONS,
                    LAMBDA n : \A i \in DOMAIN permissions : permissions[i] # n)
    /\ seedPc' = "selectPermissions"
    /\ UNCHANGED <<users, roles, nextRoleId, rolePermissions, userRoles>>
    /\ UNCHANGED <<seedIdx, seedRole, permissionMap, allRoles, roleMap, allUsers>>
    /\ UNCHANGED apiVars
    /\ UNCHANGED clientVars

\* db.select().from(permissions) and the permissionMap built from it
SeedSelectPermissions ==
    /\ seedPc = "selectPermissions"
    /\ permissionMap' = [n \in {permissions[i] : i \in DOMAIN permissions} |-> PermissionIdOf(n)]
    /\ SeedNextRole(1)
    /\ UNCHANGED store
    /\ UNCHANGED <<seedRole, allRoles, roleMap, allUsers, seedRuns>>
    /\ UNCHANGED apiVars
    /\ UNCHANGED clientVars

\* 2. db.insert(roles).values(...).onConflictDoNothing().returning(): a role
\* whose name is taken returns no row and its permissions are skipped
SeedInsertRole ==
    /\ seedPc = "insertRole"
    /\ IF RoleNameTaken(ROLES[seedIdx].name, 0)
       THEN /\ seedRole' = 0
            /\ SeedNextRole(seedIdx + 1)
            /\ UNCHANGED <<roles, nextRoleId>>
       ELSE /\ roles' = createRole(ROLES[seedIdx])
            /\ nextRoleId' = nextRoleId + 1
            /\ seedRole' = nextRoleId
            /\ seedPc' = "assignPermissions"
            /\ UNCHANGED seedIdx
    /\ UNCHANGED <<users, permissions, rolePermissions, userRoles>>
    /\ UNCHANGED <<permissionMap, allRoles, roleMap, allUsers, seedRuns>>
    /\ UNCHANGED apiVars
    /\ UNCHANGED clientVars

\* 3. db.insert(rolePermissions).values(rolePermissionValues).onConflictDoNothing()
\* for the permissions of the role that permissionMap knows, if there are any
SeedAssignPermissions ==
    /\ seedPc = "assignPermissions"
    /\ LET rolePermissionValues ==
               {<<seedRole, permissionMap[n]>> :
                    n \in ROLES[seedIdx].permissions \cap DOMAIN permissionMap}
       IN  rolePermissions' = BagInsertAll(rolePermissions, rolePermissionValues)
    /\ SeedNextRole(seedIdx + 1)
    /\ UNCHANGED <<users, permissions, roles, nextRoleId, userRoles>>
    /\ UNCHANGED <<seedRole, permissionMap, allRoles, roleMap, allUsers, seedRuns>>
    /\ UNCHANGED apiVars
    /\ UNCHANGED clientVars

RECURSIVE RoleMaps(_, _)
\* the Maps new Map(allRoles.map(r => [key(r.name), r.id])) can be, for the keys K
RoleMaps(rs, K) ==
    IF K = {} THEN {EmptyBag}
    ELSE LET key == CHOOSE x \in K : TRUE
         IN  {[x \in DOMAIN m \cup {key} |-> IF x = key THEN r ELSE m[x]] :
                 m \in RoleMaps(rs, K \ {key}), r \in RoleMapCandidates(rs, key)}

\* 4. db.select().from(roles) and the roleMap built from it
SeedSelectRoles ==
    /\ seedPc = "selectRoles"
    /\ allRoles' = [r \in DOMAIN roles |-> roles[r].name]
    /\ roleMap' \in RoleMaps(roles, {NormalizedName[roles[r].name] : r \in DOMAIN roles})
    /\ seedPc' = "selectUsers"
    /\ UNCHANGED store
    /\ UNCHANGED <<seedIdx, seedRole, permissionMap, allUsers, seedRuns>>
    /\ UNCHANGED apiVars
    /\ UNCHANGED clientVars

\* db.select().from(users): the users the loop will go through
SeedSelectUsers ==
    /\ seedPc = "selectUsers"
    /\ allUsers' = [u \in DOMAIN users |-> users[u].role]
    /\ seedPc' = IF DOMAIN users = {} THEN "done" ELSE "backfill"
    /\ UNCHANGED store
    /\ UNCHANGED <<seedIdx, seedRole, permissionMap, allRoles, roleMap, seedRuns>>
    /\ UNCHANGED apiVars
    /\ UNCHANGED clientVars

\* one iteration of the loop over allUsers:
\* db.insert(userRoles).values({userId, roleId}).onConflictDoNothing() when the
\* roleMap has the key of the user's legacy role.  user_roles has no unique
\* constraint but its primary key, so the insert never conflicts.
SeedBackfillUser(u) ==
    /\ seedPc = "backfill"
    /\ u \in DOMAIN allUsers
    /\ LET key == LegacyRoleKey(allUsers[u])
           roleId == IF key \in DOMAIN roleMap THEN roleMap[key] ELSE 0
       IN  IF roleId # 0
           THEN userRoles' = assignRoleToUser(u, roleId, 0)
           ELSE UNCHANGED userRoles
    /\ allUsers' = [x \in DOMAIN allUsers \ {u} |-> allUsers[x]]
    /\ seedPc' = IF DOMAIN allUsers = {u} THEN "done" ELSE "backfill"
    /\ UNCHANGED <<users, permissions, roles, nextRoleId, rolePermissions>>
    /\ UNCHANGED <<seedIdx, seedRole, permissionMap, allRoles, roleMap, seedRuns>>
    /\ UNCHANGED apiVars
    /\ UNCHANGED clientVars

\* the API server runs while the script does: an administrator renames the
\* seeded role "Doctor" (PUT /api/admin/roles/:id with a name) at any moment
SeedRenamedRole == CHOOSE i \in DOMAIN ROLES : ROLES[i].name = "Doctor"
SeedRenameBodies == {[name |-> "doctor"], [name |-> "Custom"]}

SeedNext ==
    \/ \E c \in Callers, body \in SeedRenameBodies : UpdateRoleRoute(c, SeedRenamedRole, body)
    \/ SeedInsertPermissions
    \/ SeedSelectPermissions
    \/ SeedInsertRole
    \/ SeedAssignPermissions
    \/ SeedSelectRoles
    \/ SeedSelectUsers
    \/ \E u \in DOMAIN users : SeedBackfillUser(u)

SeedSpec == SeedInit /\ [][SeedNext]_vars

\* the statement the script is about to await throws (the connection is lost,
\* the process is stopped): the catch block logs and rethrows, the run ends.
\* Every statement before it has been committed: there is no transaction.
SeedFail ==
    /\ seedPc \notin {"idle", "done", "failed"}
    /\ seedPc' = "failed"
    /\ UNCHANGED store
    /\ UNCHANGED <<seedIdx, seedRole, permissionMap, allRoles, roleMap, allUsers, seedRuns>>
    /\ UNCHANGED apiVars
    /\ UNCHANGED clientVars

SeedRetryNext ==
    \/ SeedFail
    \/ SeedInsertPermissions
    \/ SeedSelectPermissions
    \/ SeedInsertRole
    \/ SeedAssignPermissions
    \/ SeedSelectRoles
    \/ SeedSelectUsers
    \/ \E u \in DOMAIN users : SeedBackfillUser(u)

\* the script run again after runs that failed
SeedRetrySpec == SeedInit /\ [][SeedRetryNext]_vars

---------------------------------------------------------------------------
(* The DatabaseStorage RBAC methods called one after the other on a store    *)
(* that holds the users and the permission catalog and no role yet (the      *)
(* store seed-rbac leaves after its first statement), with getUserPermissions*)
(* calls running beside them.                                                *)

ScenarioInit ==
    /\ users = BootstrapUsers
    /\ permissions = PERMISSIONS
    /\ roles = EmptyBag
    /\ nextRoleId = 1
    /\ rolePermissions = EmptyBag
    /\ userRoles = EmptyBag
    /\ pendingDeletes = EmptyBag
    /\ resp = NoResponse
    /\ nreq = 0
    /\ resolveCall = NoCall
    /\ seedPc = "selectPermissions"
    /\ seedIdx = 0
    /\ seedRole = 0
    /\ permissionMap = EmptyBag
    /\ allRoles = EmptyBag
    /\ roleMap = EmptyBag
    /\ allUsers = EmptyBag
    /\ seedRuns = 1
    /\ ClientInit

\* the role "Analytics Only" as ROLES declares it: a system role
ScenarioCreateBodies ==
    {[name |-> ROLES[i].name, isSystemRole |-> ROLES[i].isSystemRole] :
        i \in {x \in DOMAIN ROLES : ROLES[x].name = "Analytics Only"}}
ScenarioUpdateBodies == {[isSystemRole |-> FALSE], [isSystemRole |-> TRUE]}
\* the ids of the first and the second role created
ScenarioRoleIds == {1, 2}
\* "patients.view", "reports.view" and "appointments.view"
ScenarioPermissionIds ==
    {i \in DOMAIN PERMISSIONS :
        PERMISSIONS[i] \in {"patients.view", "reports.view", "appointments.view"}}

\* a storage method is called and its outcome reported
StorageCall ==
    /\ nreq < MaxCalls
    /\ nreq' = nreq + 1
    /\ UNCHANGED <<users, permissions, resolveCall>>
    /\ UNCHANGED seedVars
    /\ UNCHANGED clientVars

ScenarioNext ==
    \/ \E body \in ScenarioCreateBodies : StorageCall /\ CreateRoleHandler(body)
    \/ \E id \in ScenarioRoleIds, body \in ScenarioUpdateBodies :
          StorageCall /\ UpdateRoleHandler(id, body)
    \/ \E id \in ScenarioRoleIds : StorageCall /\ DeleteRoleHandler(id)
    \/ \E id \in ScenarioRoleIds : DeleteRoleExec(id)
    \/ \E r \in ScenarioRoleIds, p \in ScenarioPermissionIds :
          StorageCall /\ AssignPermissionHandler(r, p)
    \/ \E u \in DOMAIN BootstrapUsers, r \in ScenarioRoleIds :
          StorageCall /\ AssignRoleHandler(0, u, r)
    \/ \E u \in DOMAIN BootstrapUsers : ResolveStart(u)
    \/ ResolveQuery
    \/ ResolveReturn

ScenarioSpec == ScenarioInit /\ [][ScenarioNext]_vars

---------------------------------------------------------------------------
(* client/src/lib/permissions.ts: the module-level permission cache and the  *)
(* checks on it, called through the module's exported functions              *)

\* the argument userRole left out
undefined == "undefined"

LEGACY_ROLE_PERMISSIONS ==
    [role \in roleEnum |->
        CASE role = "master-admin" ->
                {"patients.view", "patients.create", "patients.edit", "patients.deactivate",
                 "appointments.view", "appointments.create", "appointments.edit",
                 "appointments.cancel", "appointments.reschedule",
                 "schedule.view_all", "schedule.manage",
                 "reports.view", "reports.export", "reports.advanced",
                 "clinical.notes.view", "clinical.notes.edit", "clinical.prescriptions.create",
                 "admin.view_console", "admin.manage_users", "admin.manage_roles",
                 "admin.manage_clinics", "admin.view_audit_logs", "admin.system_settings"}
          [] role = "admin" ->
                {"patients.view", "patients.create", "patients.edit", "patients.deactivate",
                 "appointments.view", "appointments.create", "appointments.edit",
                 "appointments.cancel", "appointments.reschedule",
                 "schedule.view_all", "schedule.manage",
                 "reports.view", "reports.export", "reports.advanced",
                 "admin.view_console", "admin.manage_users"}
          [] role = "doctor" ->
                {"patients.view", "patients.create", "patients.edit",
                 "appointments.view", "appointments.create", "appointments.edit",
                 "appointments.cancel", "appointments.reschedule",
                 "schedule.view_all",
                 "reports.view", "reports.export",
                 "clinical.notes.view", "clinical.notes.edit", "clinical.prescriptions.create"}
          [] role = "nurse" ->
                {"patients.view", "patients.edit",
                 "appointments.view", "appointments.create", "appointments.reschedule",
                 "schedule.view_all",
                 "clinical.notes.view"}
          [] role = "receptionist" ->
                {"patients.view", "patients.create", "patients.edit",
                 "appointments.view", "appointments.create", "appointments.reschedule",
                 "schedule.view_all"}
          [] role = "analytics-only" ->
                {"patients.view",
                 "appointments.view",
                 "schedule.view_all",
                 "reports.view", "reports.export", "reports.advanced"}
          [] OTHER ->
                {"patients.view",
                 "appointments.view",
                 "schedule.view_own"}]

\* setUserPermissions: the array the cache is replaced by
setUserPermissions(perms) == perms

\* hasPermission: userPermissionsCache.includes(permission)
hasPermission(permission) == includes(userPermissionsCache, permission)

\* hasLegacyRolePermission
hasLegacyRolePermission(userRole, permission) ==
    IF userRole = undefined THEN FALSE
    ELSE permission \in LEGACY_ROLE_PERMISSIONS[userRole]

\* canAccessAdminConsole
canAccessAdminConsole(userRole) ==
    IF hasPermission("admin.view_console") THEN TRUE
    ELSE hasLegacyRolePermission(userRole, "admin.view_console")

\* the arrays of the model that GET /api/admin/users/:userId/permissions can
\* answer: what a user without a role, or with one seeded role, resolves to
PermissionArrays ==
    {EmptyBag} \cup {[n \in ROLES[i].permissions |-> 1] : i \in DOMAIN ROLES}

\* setUserPermissions(permissions) is called
SetUserPermissionsCall(perms) ==
    /\ userPermissionsCache' = setUserPermissions(perms)
    /\ UNCHANGED <<localStorage, loginFlow, consoleAccess>>
    /\ UNCHANGED store
    /\ UNCHANGED apiVars
    /\ UNCHANGED seedVars

\* canAccessAdminConsole(userRole) is called
CanAccessAdminConsoleCall(userRole) ==
    /\ consoleAccess' = [userRole |-> userRole, result |-> canAccessAdminConsole(userRole)]
    /\ UNCHANGED <<userPermissionsCache, localStorage, loginFlow>>
    /\ UNCHANGED store
    /\ UNCHANGED apiVars
    /\ UNCHANGED seedVars

PermissionsNext ==
    \/ \E perms \in PermissionArrays : SetUserPermissionsCall(perms)
    \/ \E userRole \in roleEnum \cup {undefined} : CanAccessAdminConsoleCall(userRole)

PermissionsSpec == Init /\ [][PermissionsNext]_vars

---------------------------------------------------------------------------
(* client/src/pages/login.tsx: the login flow of one browser, one step per   *)
(* awaited statement, against the API server                                 *)

\* the keys of lib/auth.ts
TOKEN_KEY == "careconnect_token"
USER_KEY == "careconnect_user"

\* loginMutation.mutationFn: POST /api/auth/login; onSuccess runs on 200,
\* onError otherwise
ClientLogin(u, valid) ==
    /\ loginFlow.pc = "idle"
    /\ ReceiveRequest
    /\ UNCHANGED users
    /\ LoginHandler(u, valid)
    /\ loginFlow' = IF u \in DOMAIN users /\ valid
                    THEN [pc |-> "onSuccess", user |-> u]
                    ELSE loginFlow
    /\ UNCHANGED <<userPermissionsCache, localStorage, consoleAccess>>

\* onSuccess: setToken(data.token); setCurrentUser(data.user)
ClientSetToken ==
    /\ loginFlow.pc = "onSuccess"
    /\ localStorage' = [k \in DOMAIN localStorage \cup {TOKEN_KEY, USER_KEY} |->
                            IF k \in {TOKEN_KEY, USER_KEY} THEN loginFlow.user
                            ELSE localStorage[k]]
    /\ loginFlow' = [loginFlow EXCEPT !.pc = "loadUserPermissions"]
    /\ UNCHANGED <<userPermissionsCache, consoleAccess>>
    /\ UNCHANGED store
    /\ UNCHANGED apiVars
    /\ UNCHANGED seedVars

\* onSuccess: await loadUserPermissions(data.user.id).  The function reads the
\* key 'token'; without it, it returns; with it, it sends GET
\* /api/admin/users/:userId/permissions and stores the array of a 200 answer.
ClientLoadUserPermissions ==
    /\ loginFlow.pc = "loadUserPermissions"
    /\ IF "token" \notin DOMAIN localStorage
       THEN /\ UNCHANGED userPermissionsCache
            /\ UNCHANGED store
            /\ UNCHANGED apiVars
            /\ UNCHANGED seedVars
       ELSE /\ ReceiveRequest
            /\ UNCHANGED users
            /\ IF ~authenticate(localStorage["token"])
               THEN Rejected("authenticate", 401)
               ELSE Gated("getUserPermissions", localStorage["token"],
                          GetUserPermissionsHandler(loginFlow.user))
            /\ userPermissionsCache' =
                  IF resp'.status = 200 THEN setUserPermissions(resp'.perms)
                  ELSE userPermissionsCache
    /\ loginFlow' = [loginFlow EXCEPT !.pc = "reload"]
    /\ UNCHANGED <<localStorage, consoleAccess>>

\* onSuccess: window.location.reload(): the modules are evaluated again, the
\* stored token makes the application show its pages
ClientReload ==
    /\ loginFlow.pc = "reload"
    /\ userPermissionsCache' = EmptyBag
    /\ loginFlow' = [loginFlow EXCEPT !.pc = "idle"]
    /\ UNCHANGED <<localStorage, consoleAccess>>
    /\ UNCHANGED store
    /\ UNCHANGED apiVars
    /\ UNCHANGED seedVars

\* header.tsx: canAccessAdminConsole(user?.role) for the stored current user
ClientHeader ==
    /\ loginFlow.pc = "idle"
    /\ USER_KEY \in DOMAIN localStorage
    /\ localStorage[USER_KEY] \in DOMAIN users
    /\ CanAccessAdminConsoleCall(users[localStorage[USER_KEY]].role)

ClientNext ==
    \/ \E u \in ReqUserIds, valid \in BOOLEAN : ClientLogin(u, valid)
    \/ ClientSetToken
    \/ ClientLoadUserPermissions
    \/ ClientReload
    \/ ClientHeader
    \/ \E c \in Callers, u \in ReqUserIds, r \in ReqRoleIds : AssignRoleRoute(c, u, r)
    \/ \E c \in Callers, u \in ReqUserIds, r \in ReqRoleIds : RemoveRoleRoute(c, u, r)

ClientSpec == Init /\ [][ClientNext]_vars

---------------------------------------------------------------------------
(* The vocabulary of the properties, read off the tables *)

\* the roles a user holds: existing roles some user_roles row gives the user
RolesHeld(u) ==
    {r \in DOMAIN roles : \E k \in DOMAIN userRoles : k[1] = u /\ k[2] = r /\ userRoles[k] > 0}

\* the permission names assigned to a role
PermissionNamesOf(r) ==
    {permissions[q[2]] : q \in {x \in DOMAIN rolePermissions :
                                   x[1] = r /\ x[2] \in DOMAIN permissions /\ rolePermissions[x] > 0}}

\* the union of the permission names of the roles in R
UnionOver(R) == UNION {PermissionNamesOf(r) : r \in R}

\* the resolved permission set of a user
ResolvedSet(u) == UnionOver(RolesHeld(u))

\* an array that holds each name of the set S once
ArrayOfSet(S) == [n \in S |-> 1]

\* number of user_roles rows of user u
AssignmentCount(u) == BagCount(userRoles, {k \in DOMAIN userRoles : k[1] = u})

\* what every handler of op does to the request counter and the response
\* (deleteRole sends its response in its second step)
Handles(op) ==
    /\ nreq' = nreq + 1
    /\ resp'.op = op \/ (op = "deleteRole" /\ resp' = resp)

\* what the handler of op does after the gate, for some request of caller c
HandlerOf(op, c) ==
    CASE op = "getUsers" -> GetUsersHandler /\ UNCHANGED users
      [] op = "createRole" ->
            UNCHANGED users /\ \E body \in CreateBodies : CreateRoleHandler(body)
      [] op = "updateRole" ->
            UNCHANGED users /\ \E id \in ReqRoleIds, body \in UpdateBodies : UpdateRoleHandler(id, body)
      [] op = "deleteRole" -> UNCHANGED users /\ \E id \in DeleteRoleIds : DeleteRoleHandler(id)
      [] op = "assignPermission" ->
            UNCHANGED users /\ \E r \in ReqRoleIds, p \in ReqPermissionIds \cup {Missing} :
                                   AssignPermissionHandler(r, p)
      [] op = "removePermission" ->
            UNCHANGED users /\ \E r \in ReqRoleIds, p \in ReqPermissionIds :
                                   RemovePermissionHandler(r, p)
      [] op = "assignRole" ->
            UNCHANGED users /\ \E u \in ReqUserIds, r \in ReqRoleIds \cup {Missing} :
                                   AssignRoleHandler(c, u, r)
      [] op = "removeRole" ->
            UNCHANGED users /\ \E u \in ReqUserIds, r \in ReqRoleIds : RemoveRoleHandler(u, r)
      [] op = "getUserPermissions" ->
            UNCHANGED users /\ \E u \in ReqUserIds : GetUserPermissionsHandler(u)
      [] op = "updateUser" ->
            \E id \in ReqUserIds, body \in UserUpdateBodies : UpdateUserHandler(id, body)

\* the step is the handling of a request op sent by caller c
StepOf(op, c) ==
    /\ Handles(op)
    /\ ReceiveRequest
    /\ authenticate(c)
    /\ IF ~Allowed(op, c) THEN Rejected(op, 403) /\ UNCHANGED users ELSE HandlerOf(op, c)

GatedOps ==
    {"getUsers", "createRole", "updateRole", "deleteRole", "assignPermission",
     "removePermission", "assignRole", "removeRole", "getUserPermissions", "updateUser"}

\* the request is answered 403 Insufficient permissions and nothing else happens
Denied(op) ==
    /\ resp' = [op |-> op, status |-> 403, perms |-> EmptyBag]
    /\ UNCHANGED <<users, permissions, roles, nextRoleId, rolePermissions, userRoles,
                   pendingDeletes>>

---------------------------------------------------------------------------
(* C1 *)

\* C1: a deleteRole call that finds no role with the id, or a role whose
\* isSystemRole is true, returns false (the handler answers 400) and removes no
\* row from roles, role_permissions or user_roles; the ids tried include every
\* seeded system role.
C1_DeleteRefused ==
    [][\A id \in DeleteRoleIds :
          (/\ Handles("deleteRole")
           /\ id \notin DOMAIN roles \/ roles[id].isSystemRole
           /\ DeleteRoleHandler(id))
          => /\ resp' = [op |-> "deleteRole", status |-> 400, perms |-> EmptyBag]
             /\ UNCHANGED <<roles, rolePermissions, userRoles, pendingDeletes>>]_vars

\* a deleteRole request was answered with failure, no deletion is in progress,
\* and every seeded system role is still there and still a system role
C1_Witness ==
    /\ resp = [op |-> "deleteRole", status |-> 400, perms |-> EmptyBag]
    /\ pendingDeletes = EmptyBag
    /\ \A r \in DOMAIN ROLES : r \in DOMAIN roles /\ roles[r].isSystemRole

---------------------------------------------------------------------------
(* C2 *)

\* C2: for every user with at least one role assignment, getUserPermissions
\* returns an array holding exactly the names in the union of the permission
\* names of the roles the user holds, each name once, whatever rows (in whatever
\* order, duplicates included) the join tables hold.
C2_ResolveIsUnion ==
    \A u \in ReqUserIds :
        AssignmentCount(u) > 0 => getUserPermissions(u) = ArrayOfSet(ResolvedSet(u))

\* a user holds two roles that share a permission name, one of them through
\* two user_roles rows, and getUserPermissions returns a non-empty array for it
C2_Witness ==
    \E u \in DOMAIN users :
        /\ getUserPermissions(u) # EmptyBag
        /\ \E r1, r2 \in RolesHeld(u) :
              /\ r1 # r2
              /\ PermissionNamesOf(r1) \cap PermissionNamesOf(r2) # {}
              /\ BagCount(userRoles, removeRoleRows(u, r1)) >= 2

---------------------------------------------------------------------------
(* C3 *)

\* C3: for every user id without a user_roles row, an id no user has included,
\* getUserPermissions returns the empty array, and the handler that returns a
\* user's permissions answers 200 with the empty array, not an error.
C3_NoRolesEmpty ==
    /\ [](\A u \in ReqUserIds : AssignmentCount(u) = 0 => getUserPermissions(u) = EmptyBag)
    /\ [][\A u \in ReqUserIds :
            (/\ Handles("getUserPermissions")
             /\ AssignmentCount(u) = 0
             /\ GetUserPermissionsHandler(u))
            => resp' = [op |-> "getUserPermissions", status |-> 200, perms |-> EmptyBag]]_vars

\* the empty array was returned with status 200 while an existing user has no
\* role assignment
C3_Witness ==
    /\ resp = [op |-> "getUserPermissions", status |-> 200, perms |-> EmptyBag]
    /\ \E u \in DOMAIN users : AssignmentCount(u) = 0

---------------------------------------------------------------------------
(* C4 *)

\* C4: a handler that requires permission P answers 403 Insufficient
\* permissions, and does nothing else, exactly when P is not in the caller's
\* resolved permission set at the time of the check.
C4_GateIff ==
    [][\A op \in GatedOps, c \in Callers :
          StepOf(op, c) => (Denied(op) <=> RequiredPermission(op) \notin ResolvedSet(c))]_vars

\* GET /api/admin/users was denied while one user lacks admin.manage_users and
\* another holds it
C4_Witness ==
    /\ resp = [op |-> "getUsers", status |-> 403, perms |-> EmptyBag]
    /\ \E c \in DOMAIN users : "admin.manage_users" \notin ResolvedSet(c)
    /\ \E c \in DOMAIN users : "admin.manage_users" \in ResolvedSet(c)

---------------------------------------------------------------------------
(* C5 *)

MutatingOps ==
    {"createRole", "updateRole", "deleteRole", "assignPermission", "removePermission",
     "assignRole", "removeRole"}

\* the permission section 6 of the specification requires of the caller
SpecRequired(op) ==
    IF op \in {"assignRole", "removeRole"} THEN "admin.manage_users" ELSE "admin.manage_roles"

\* C5: every mutating RBAC endpoint is gated on the caller's own resolved
\* permissions: role and role-permission mutations on admin.manage_roles,
\* user-role mutations on admin.manage_users.  A caller who lacks the
\* permission is answered 403 and roles, role_permissions and user_roles are
\* unchanged, whatever the target user holds.
C5_MutationsGated ==
    [][\A op \in MutatingOps, c \in Callers :
          (StepOf(op, c) /\ SpecRequired(op) \notin ResolvedSet(c))
          => /\ resp' = [op |-> op, status |-> 403, perms |-> EmptyBag]
             /\ UNCHANGED <<roles, rolePermissions, userRoles, pendingDeletes>>]_vars

\* a user-role mutation was denied while some user lacks admin.manage_users
\* and another user, a possible target, holds it
C5_Witness ==
    /\ resp.op \in {"assignRole", "removeRole"}
    /\ resp.status = 403
    /\ \E c, t \in DOMAIN users :
          /\ "admin.manage_users" \notin ResolvedSet(c)
          /\ "admin.manage_users" \in ResolvedSet(t)

---------------------------------------------------------------------------
(* C6 *)

\* C6: role_permissions holds at most one row per (roleId, permissionId) pair
\* in every reachable state, so assigning the same permission to the same role
\* a second time adds nothing.
C6_PairUnique ==
    \A q \in DOMAIN rolePermissions : rolePermissions[q] <= 1

---------------------------------------------------------------------------
(* C7 *)

---------------------------------------------------------------------------
(* C8 *)

\* C8: no step changes the isSystemRole flag of a role that exists before and
\* after it.
C8_FlagNeverFlips ==
    [][\A r \in DOMAIN roles \cap DOMAIN roles' :
          roles'[r].isSystemRole = roles[r].isSystemRole]_vars

---------------------------------------------------------------------------
(* C9 *)

\* C9: every role row added by a step of the API has isSystemRole = FALSE.
C9_CreatedNonSystem ==
    [][\A r \in DOMAIN roles' \ DOMAIN roles : ~roles'[r].isSystemRole]_vars

---------------------------------------------------------------------------
(* C10 *)

\* the role name section 4.5 of the specification maps a legacy role to
LegacyRoleName(role) ==
    CASE role = "master-admin" -> "Master Admin"
      [] role = "admin" -> "Clinic Admin"
      [] role = "doctor" -> "Doctor"
      [] role = "nurse" -> "Nurse"
      [] role = "receptionist" -> "Receptionist"
      [] role = "analytics-only" -> "Analytics Only"
      [] OTHER -> "Staff"

\* number of user_roles rows that give user u a role named name
RowsForRoleNamed(u, name) ==
    BagCount(userRoles,
             {k \in DOMAIN userRoles :
                 k[1] = u /\ k[2] \in DOMAIN roles /\ roles[k[2]].name = name})

\* C10: whenever a run of seedRBAC has finished, however many runs came before
\* (and no administrator has changed the store in between), every user has
\* exactly one user_roles row for the role its legacy role maps to.
C10_BackfillOnce ==
    (seedPc = "done" /\ nreq = 0) =>
        \A u \in DOMAIN users : RowsForRoleNamed(u, LegacyRoleName(users[u].role)) = 1

---------------------------------------------------------------------------
(* C11, C12 *)

\* the user_roles rows a step adds
RowsAdded == {k \in DOMAIN userRoles' : Copies(userRoles', k) > Copies(userRoles, k)}

\* C11: when the registry the mapper read holds the role named by the fixed
\* table for the user's legacy role, every assignment the mapper makes for the
\* user is to that role, whatever other roles the registry holds.
C11_MapsToTableImage ==
    [][\A u \in DOMAIN allUsers :
          (/\ SeedBackfillUser(u)
           /\ \E r \in DOMAIN allRoles : allRoles[r] = LegacyRoleName(allUsers[u]))
          => \A k \in RowsAdded :
                 /\ k[1] = u
                 /\ k[2] \in DOMAIN allRoles
                 /\ allRoles[k[2]] = LegacyRoleName(allUsers[u])]_vars

\* C12: when no role of the registry the mapper read has the name the user's
\* legacy role maps to, the mapper's step for that user adds no assignment,
\* raises no error and the loop goes on with the remaining users.
C12_MissingTargetSkipped ==
    [][\A u \in DOMAIN allUsers :
          (/\ SeedBackfillUser(u)
           /\ \A r \in DOMAIN allRoles : allRoles[r] # LegacyRoleName(allUsers[u]))
          => /\ userRoles' = userRoles
             /\ seedPc' \in {"backfill", "done"}
             /\ DOMAIN allUsers' = DOMAIN allUsers \ {u}]_vars

---------------------------------------------------------------------------
(* C13 *)

\* C13: removePermissionFromRole(roleId, permissionId) returns false (the
\* handler answers 404) exactly when role_permissions holds no row for the
\* pair, and then the store is unchanged; when it returns true (200) no row for
\* the pair remains, however many there were, and the rows of every other pair
\* are as before.
C13_RemovePermission ==
    [][\A r \in ReqRoleIds, p \in ReqPermissionIds :
          (/\ Handles("removePermission")
           /\ RemovePermissionHandler(r, p))
          => /\ resp'.status \in {200, 404}
             /\ resp'.status = 404 <=> Copies(rolePermissions, <<r, p>>) = 0
             /\ resp'.status = 404 => UNCHANGED store
             /\ Copies(rolePermissions', <<r, p>>) = 0
             /\ \A q \in DOMAIN rolePermissions \cup DOMAIN rolePermissions' :
                   q # <<r, p>> => Copies(rolePermissions', q) = Copies(rolePermissions, q)
             /\ UNCHANGED <<users, permissions, roles, userRoles>>]_vars

\* a removal returned true: a seeded pair of a role is gone while other pairs
\* of the same role are still there
C13_Witness ==
    /\ resp = [op |-> "removePermission", status |-> 200, perms |-> EmptyBag]
    /\ \E q \in DOMAIN SeededRolePermissions :
          /\ Copies(rolePermissions, q) = 0
          /\ \E q2 \in DOMAIN rolePermissions : q2[1] = q[1] /\ q2[2] # q[2]

---------------------------------------------------------------------------
(* C14 *)

\* number of user_roles rows that give user u the role r
Holds(u, r) == BagCount(userRoles, {k \in DOMAIN userRoles : k[1] = u /\ k[2] = r})

\* C14: removeRoleFromUser(userId, roleId) returns false (the handler answers
\* 404) exactly when the user has no user_roles row for the role, and then the
\* store is unchanged; when it returns true (200) the user has no row for the
\* role any more and every other assignment, of this user and of the others,
\* is as before.
C14_RemoveRole ==
    [][\A u \in ReqUserIds, r \in ReqRoleIds :
          (/\ Handles("removeRole")
           /\ RemoveRoleHandler(u, r))
          => /\ resp'.status \in {200, 404}
             /\ resp'.status = 404 <=> Holds(u, r) = 0
             /\ resp'.status = 404 => UNCHANGED store
             /\ Holds(u, r)' = 0
             /\ \A k \in DOMAIN userRoles \cup DOMAIN userRoles' :
                   (k[1] # u \/ k[2] # r) => Copies(userRoles', k) = Copies(userRoles, k)
             /\ UNCHANGED <<users, permissions, roles, rolePermissions>>]_vars

\* a removal returned true: a user lost the role the seed gave it and still
\* holds another role
C14_Witness ==
    /\ resp = [op |-> "removeRole", status |-> 200, perms |-> EmptyBag]
    /\ \E k \in DOMAIN SeededUserRoles(users) :
          /\ Holds(k[1], k[2]) = 0
          /\ RolesHeld(k[1]) # {}

---------------------------------------------------------------------------
(* C15 *)

\* C15: assignRoleToUser(userId, roleId) removes and replaces nothing: every
\* role any user holds before the call is held after it, a successful call (201)
\* leaves the user holding the role, and the user's resolved permission set
\* after the call includes the set before it.
C15_AssignRoleAdds ==
    [][\A c \in Callers, u \in ReqUserIds, r \in ReqRoleIds :
          (/\ Handles("assignRole")
           /\ AssignRoleHandler(c, u, r))
          => /\ \A x \in ReqUserIds : RolesHeld(x) \subseteq RolesHeld(x)'
             /\ \A k \in DOMAIN userRoles : Copies(userRoles', k) >= userRoles[k]
             /\ resp'.status = 201 => r \in RolesHeld(u)'
             /\ ResolvedSet(u) \subseteq ResolvedSet(u)'
             /\ DOMAIN getUserPermissions(u) \subseteq DOMAIN getUserPermissions(u)']_vars

\* an assignment succeeded and a user now holds the role the seed gave it and
\* another role
C15_Witness ==
    /\ resp = [op |-> "assignRole", status |-> 201, perms |-> EmptyBag]
    /\ \E k \in DOMAIN SeededUserRoles(users) :
          /\ Holds(k[1], k[2]) > 0
          /\ RolesHeld(k[1]) \ {k[2]} # {}

---------------------------------------------------------------------------
(* C16 *)

\* C16: a login with the correct credentials of a user whose isActive is false
\* is rejected and issues no token, whatever roles the user holds.
C16_InactiveCannotLogin ==
    [][\A u \in DOMAIN users :
          (/\ Handles("login")
           /\ ~users[u].isActive
           /\ LoginRoute(u, TRUE))
          => resp'.status # 200]_vars

---------------------------------------------------------------------------
(* C17 *)

\* C17: no step modifies a system role: a role whose isSystemRole is true keeps
\* its row (name and flag) and its role_permissions rows.
C17_SystemRoleImmutable ==
    [][\A r \in DOMAIN roles :
          roles[r].isSystemRole
          => /\ r \in DOMAIN roles'
             /\ roles'[r] = roles[r]
             /\ \A p \in DOMAIN permissions :
                   Copies(rolePermissions', <<r, p>>) = Copies(rolePermissions, <<r, p>>)]_vars

---------------------------------------------------------------------------
(* C18 *)

\* the handlers a user would pass
PassedBy(u) ==
    LET userPermissions == getUserPermissions(u)
    IN  {op \in GatedOps : includes(userPermissions, RequiredPermission(op))}

\* C18: once assignPermissionToRole or removePermissionFromRole has returned,
\* the resolved permissions and the gate decisions of every user are those of
\* the store as changed: a user holding the role has the permission added, has
\* lost the permission removed unless another role of the user carries it, and
\* a permissions request answered next returns the array resolved from the
\* store at that moment.
C18_ChangeAppliesAtOnce ==
    [][/\ \A r \in ReqRoleIds, p \in ReqPermissionIds :
            (/\ Handles("assignPermission")
             /\ resp'.status = 201
             /\ AssignPermissionHandler(r, p))
            => \A u \in DOMAIN users :
                  r \in RolesHeld(u) => permissions[p] \in DOMAIN getUserPermissions(u)'
       /\ \A r \in ReqRoleIds, p \in ReqPermissionIds :
            (/\ Handles("removePermission")
             /\ resp'.status = 200
             /\ RemovePermissionHandler(r, p))
            => \A u \in DOMAIN users :
                  (/\ r \in RolesHeld(u)
                   /\ \A r2 \in RolesHeld(u) \ {r} : permissions[p] \notin PermissionNamesOf(r2))
                  => permissions[p] \notin DOMAIN getUserPermissions(u)'
       /\ \A u \in ReqUserIds :
            (/\ Handles("getUserPermissions")
             /\ resp'.status = 200
             /\ GetUserPermissionsHandler(u))
            => resp'.perms = ArrayOfSet(ResolvedSet(u))
       /\ rolePermissions' # rolePermissions
            => \A u \in DOMAIN users :
                  PassedBy(u)' = {op \in GatedOps : RequiredPermission(op) \in ResolvedSet(u)'}
      ]_vars

\* a permission was removed from a role and a user holding the role no longer
\* resolves it and no longer passes the gates that require it
C18_Witness ==
    /\ resp = [op |-> "removePermission", status |-> 200, perms |-> EmptyBag]
    /\ \E u \in DOMAIN users, q \in DOMAIN SeededRolePermissions :
          /\ q[1] \in RolesHeld(u)
          /\ Copies(rolePermissions, q) = 0
          /\ permissions[q[2]] \notin DOMAIN getUserPermissions(u)
          /\ \E op \in GatedOps : RequiredPermission(op) = permissions[q[2]] /\ op \notin PassedBy(u)

---------------------------------------------------------------------------
(* C19 *)

\* C19: no two roles have the same name in any reachable state, and a
\* createRole with a name a role already has fails (the handler answers 500)
\* and adds no row.
C19_RoleNamesUnique ==
    /\ [](\A r1, r2 \in DOMAIN roles : roles[r1].name = roles[r2].name => r1 = r2)
    /\ [][\A body \in CreateBodies :
            (/\ Handles("createRole")
             /\ "name" \in DOMAIN body
             /\ \E r \in DOMAIN roles : roles[r].name = body.name
             /\ CreateRoleHandler(body))
            => /\ resp'.status = 500
               /\ UNCHANGED store]_vars

\* a createRole failed while a role has the name of the request bodies
C19_Witness ==
    /\ resp = [op |-> "createRole", status |-> 500, perms |-> EmptyBag]
    /\ \E r \in DOMAIN roles : \E body \in CreateBodies :
          "name" \in DOMAIN body /\ roles[r].name = body.name

---------------------------------------------------------------------------
(* C20 *)

\* C20: whatever single-row assignment writes run before, between and after
\* the steps of a getUserPermissions call, the array the call returns holds
\* exactly the resolved set of one committed state of the store that existed
\* between the call's start and its return: the state its SELECT ran in.
C20_ResolveSeesOneState ==
    /\ [][ResolveQuery
            => resolveCall'.result = ArrayOfSet(ResolvedSet(resolveCall.userId))]_vars
    /\ [][ResolveReturn
            => /\ resolveCall.pc = "queried"
               /\ resolveCall'.result = resolveCall.result]_vars
    /\ [][resolveCall.pc = "queried" /\ resolveCall'.pc = "queried"
            => resolveCall'.result = resolveCall.result]_vars

\* a call has run its SELECT after one write and has not returned yet; another
\* write has since changed what the user resolves to
C20_Witness ==
    /\ resolveCall.pc = "queried"
    /\ resolveCall.userId \in DOMAIN users
    /\ resolveCall.result # getUserPermissions(resolveCall.userId)
    /\ resolveCall.result # ArrayOfSet(UNION {ROLES[k[2]].permissions :
                                k \in {x \in DOMAIN SeededUserRoles(users) :
                                          x[1] = resolveCall.userId}})

---------------------------------------------------------------------------
(* C21 *)

\* C21: resolution and the gate check write nothing: a permissions request
\* that is answered, and a request of any handler that the gate denies, leave
\* users, roles, permissions, role_permissions and user_roles as they were, so
\* that every user resolves after the step to what it resolved to before it and
\* the array just returned is the one the same call would return again.
C21_ResolutionReadOnly ==
    [][/\ \A u \in ReqUserIds :
            (/\ Handles("getUserPermissions")
             /\ resp'.status = 200
             /\ GetUserPermissionsHandler(u))
            => /\ UNCHANGED store
               /\ \A v \in ReqUserIds : getUserPermissions(v)' = getUserPermissions(v)
               /\ resp'.perms = getUserPermissions(u)'
       /\ \A op \in GatedOps, c \in Callers :
            (/\ resp'.status = 403
             /\ StepOf(op, c))
            => /\ UNCHANGED store
               /\ \A v \in ReqUserIds : getUserPermissions(v)' = getUserPermissions(v)
      ]_vars

\* two requests were handled without a write, the last one a permissions
\* request that returned the non-empty array of a user: the store is the
\* seeded one
C21_Witness ==
    /\ nreq >= 2
    /\ resp.op = "getUserPermissions"
    /\ resp.status = 200
    /\ resp.perms # EmptyBag
    /\ \E u \in DOMAIN users : resp.perms = getUserPermissions(u)
    /\ users = BootstrapUsers
    /\ roles = SeededRoles
    /\ rolePermissions = SeededRolePermissions
    /\ userRoles = SeededUserRoles(users)

---------------------------------------------------------------------------
(* C22 *)

\* the role r is named "Analytics Only" and holds exactly patients.view and
\* reports.view, and it is the only role user u holds
AnalyticsOnlyOf(u, r) ==
    /\ r \in DOMAIN roles
    /\ roles[r].name = "Analytics Only"
    /\ PermissionNamesOf(r) = {"patients.view", "reports.view"}
    /\ RolesHeld(u) = {r}

\* C22: while a role "Analytics Only" holding exactly patients.view and
\* reports.view is the only role of a user U, getUserPermissions(U) returns
\* exactly these two names; an update that sets isSystemRole to false on the
\* role succeeds and changes nothing else; a deleteRole on the role, once it is
\* not a system role, passes its system-role test and its DELETE returns true,
\* and getUserPermissions(U) is empty from then on.
C22_AnalyticsOnlyScenario ==
    /\ [](\A u \in DOMAIN users, r \in DOMAIN roles :
            AnalyticsOnlyOf(u, r)
            => getUserPermissions(u) = ArrayOfSet({"patients.view", "reports.view"}))
    /\ [][\A u \in DOMAIN users, r \in ScenarioRoleIds :
            /\ (/\ ResolveQuery
                 /\ resolveCall.userId = u
                 /\ AnalyticsOnlyOf(u, r))
                => resolveCall'.result = ArrayOfSet({"patients.view", "reports.view"})
            /\ (/\ Handles("updateRole")
                 /\ AnalyticsOnlyOf(u, r)
                 /\ UpdateRoleHandler(r, [isSystemRole |-> FALSE]))
                => /\ resp'.status = 200
                   /\ ~roles'[r].isSystemRole
                   /\ AnalyticsOnlyOf(u, r)'
            /\ (/\ Handles("deleteRole")
                 /\ AnalyticsOnlyOf(u, r)
                 /\ ~roles[r].isSystemRole
                 /\ DeleteRoleHandler(r))
                => Copies(pendingDeletes', r) = Copies(pendingDeletes, r) + 1
            /\ (/\ DeleteRoleExec(r)
                 /\ AnalyticsOnlyOf(u, r))
                => /\ resp' = [op |-> "deleteRole", status |-> 200, perms |-> EmptyBag]
                   /\ r \notin DOMAIN roles'
                   /\ getUserPermissions(u)' = EmptyBag]_vars

\* a getUserPermissions call of a user has read exactly patients.view and
\* reports.view; since then a deleteRole has returned true, no role is left
\* (the one created as a system role has been marked non-system and deleted)
\* and the user resolves to nothing
C22_Witness ==
    /\ resolveCall.pc = "queried"
    /\ resolveCall.userId \in DOMAIN users
    /\ resolveCall.result = ArrayOfSet({"patients.view", "reports.view"})
    /\ resp = [op |-> "deleteRole", status |-> 200, perms |-> EmptyBag]
    /\ roles = EmptyBag
    /\ nextRoleId = 2
    /\ getUserPermissions(resolveCall.userId) = EmptyBag

---------------------------------------------------------------------------
(* C23 *)

\* C23: whenever the permission cache holds an array loaded from the server,
\* canAccessAdminConsole returns, for every legacy role passed to it (and for
\* none), whether the cache contains admin.view_console.  A cache that holds
\* no name is taken as not loaded.
C23_LegacyOnlyAsFallback ==
    userPermissionsCache # EmptyBag
    => \A userRole \in roleEnum \cup {undefined} :
          canAccessAdminConsole(userRole) = hasPermission("admin.view_console")

---------------------------------------------------------------------------
(* C25 *)

\* C25: when loadUserPermissions has returned in the login flow of user U, and
\* no request but those of the flow has been answered since the login, the
\* client's hasPermission(p) is true exactly for the names p that U resolves to
\* on the server.  (The reload that ends the flow empties the cache again.)
C25_CacheIsResolvedSet ==
    [][(/\ ClientLoadUserPermissions
        /\ resp'.op \in {"login", "getUserPermissions"})
       => \A i \in DOMAIN PERMISSIONS :
             hasPermission(PERMISSIONS[i])' <=> PERMISSIONS[i] \in ResolvedSet(loginFlow.user)']_vars

---------------------------------------------------------------------------
(* C24 *)

\* the number of permissions ADMIN_GUIDE.md gives for each system role
DocumentedCount ==
    ("Master Admin" :> 24) @@ ("Clinic Admin" :> 16) @@ ("Doctor" :> 14) @@
    ("Nurse" :> 7) @@ ("Receptionist" :> 7) @@ ("Analytics Only" :> 6) @@ ("Staff" :> 3)

\* C24: when seedRBAC, started on a store without RBAC rows, has finished (and
\* no administrator has changed the store), the catalog has 24 permissions,
\* every role of ROLES exists as a system role with exactly the documented
\* number of permissions, one role_permissions row each, and every user
\* holding Master Admin resolves to the whole catalog.
C24_SeededCounts ==
    (seedPc = "done" /\ nreq = 0) =>
        /\ Len(permissions) = 24
        /\ \A i \in DOMAIN ROLES :
              \E r \in DOMAIN roles :
                 /\ roles[r].name = ROLES[i].name
                 /\ roles[r].isSystemRole
                 /\ Cardinality(PermissionNamesOf(r)) = DocumentedCount[ROLES[i].name]
                 /\ BagCount(rolePermissions, {q \in DOMAIN rolePermissions : q[1] = r})
                       = DocumentedCount[ROLES[i].name]
        /\ \A u \in DOMAIN users :
              (\E r \in RolesHeld(u) : roles[r].name = "Master Admin")
              => /\ ResolvedSet(u) = {permissions[i] : i \in DOMAIN permissions}
                 /\ DOMAIN getUserPermissions(u) = {PERMISSIONS[i] : i \in DOMAIN PERMISSIONS}

\* the first run has finished: one user holds Master Admin and resolves to 24
\* names, another user holds another role
C24_Witness ==
    /\ seedPc = "done"
    /\ seedRuns = 1
    /\ nreq = 0
    /\ \E u, v \in DOMAIN users :
          /\ \E r \in RolesHeld(u) : roles[r].name = "Master Admin"
          /\ Cardinality(DOMAIN getUserPermissions(u)) = 24
          /\ \A r \in RolesHeld(v) : roles[r].name # "Master Admin"
          /\ RolesHeld(v) # {}

---------------------------------------------------------------------------
(* C26 *)

\* C26: whatever updateRole and deleteRole calls for the same role run between
\* the SELECT and the DELETE of a deleteRole call, the row its DELETE removes
\* is not a system role at that moment, and the call returns true only if its
\* own DELETE removed the row, so that of several calls for one role at most
\* one returns true.
C26_DeleteRaceSafe ==
    [][\A id \in ScenarioRoleIds :
          DeleteRoleExec(id)
          => /\ (id \in DOMAIN roles /\ id \notin DOMAIN roles') => ~roles[id].isSystemRole
             /\ resp'.status = 200 => (id \in DOMAIN roles /\ id \notin DOMAIN roles')]_vars

---------------------------------------------------------------------------
(* C27 *)

\* C27: no request of a caller who holds admin.manage_users and does not hold
\* admin.manage_roles leaves that caller holding admin.manage_roles; hence no
\* sequence of such requests does.
C27_NoEscalation ==
    [][\A c \in Callers, op \in GatedOps :
          (/\ "admin.manage_users" \in ResolvedSet(c)
           /\ "admin.manage_roles" \notin ResolvedSet(c)
           /\ StepOf(op, c))
          => "admin.manage_roles" \notin ResolvedSet(c)']_vars

---------------------------------------------------------------------------
(* C28 *)

\* C28: whenever a run of seedRBAC has completed, every role of ROLES exists
\* and holds exactly the permissions ROLES configures for it, also when an
\* earlier run ended between two of its statements.
C28_SeedingConverges ==
    seedPc = "done" =>
        \A i \in DOMAIN ROLES :
            \E r \in DOMAIN roles :
               /\ roles[r].name = ROLES[i].name
               /\ PermissionNamesOf(r) = ROLES[i].permissions

---------------------------------------------------------------------------
(* C29 *)

\* every join row references rows that exist
ReferencesExist ==
    /\ \A q \in DOMAIN rolePermissions : q[1] \in DOMAIN roles /\ q[2] \in DOMAIN permissions
    /\ \A k \in DOMAIN userRoles : k[1] \in DOMAIN users /\ k[2] \in DOMAIN roles

\* C29: in every reachable state each role_permissions row references an
\* existing role and an existing permission and each user_roles row an existing
\* user and an existing role; an assignment that names a role, a permission or
\* a user that does not exist fails (the handler answers 500) and adds no row;
\* and once a deleteRole has removed a role no join row references it.
C29_ReferentialIntegrity ==
    /\ []ReferencesExist
    /\ [][/\ \A r \in ReqRoleIds, p \in ReqPermissionIds :
              (/\ Handles("assignPermission")
               /\ r \notin DOMAIN roles \/ p \notin DOMAIN permissions
               /\ AssignPermissionHandler(r, p))
              => resp'.status = 500 /\ UNCHANGED store
         /\ \A c \in Callers, u \in ReqUserIds, r \in ReqRoleIds :
              (/\ Handles("assignRole")
               /\ u \notin DOMAIN users \/ r \notin DOMAIN roles
               /\ AssignRoleHandler(c, u, r))
              => resp'.status = 500 /\ UNCHANGED store
         /\ \A id \in DeleteRoleIds :
              (DeleteRoleExec(id) /\ resp'.status = 200)
              => /\ id \notin DOMAIN roles'
                 /\ \A q \in DOMAIN rolePermissions' : q[1] # id
                 /\ \A k \in DOMAIN userRoles' : k[2] # id
                 /\ \A q \in DOMAIN rolePermissions :
                       q[1] # id => Copies(rolePermissions', q) = rolePermissions[q]
                 /\ \A k \in DOMAIN userRoles :
                       k[2] # id => Copies(userRoles', k) = userRoles[k]]_vars

\* a seeded role that had permissions and a user has been deleted: the role
\* is gone and no role_permissions or user_roles row names it
C29_Witness ==
    /\ resp = [op |-> "deleteRole", status |-> 200, perms |-> EmptyBag]
    /\ \E k \in DOMAIN SeededUserRoles(users) :
          /\ k[2] \notin DOMAIN roles
          /\ \E q \in DOMAIN SeededRolePermissions : q[1] = k[2]
          /\ \A q \in DOMAIN rolePermissions : q[1] # k[2]
          /\ \A x \in DOMAIN userRoles : x[2] # k[2]
    /\ rolePermissions # EmptyBag

---------------------------------------------------------------------------
(* C30 *)

\* C30: an assignRoleToUser(u, r) or removeRoleFromUser(u, r) that writes (the
\* handler answers 201, 200) leaves what every user other than u resolves to
\* unchanged; an assignPermissionToRole(r, p) or removePermissionFromRole(r, p)
\* that writes leaves what every user who does not hold r resolves to
\* unchanged.  (A call that fails or finds no row writes nothing.)
C30_MutationsLocal ==
    [][/\ \A c \in Callers, u \in ReqUserIds, r \in ReqRoleIds :
            (/\ Handles("assignRole")
             /\ resp'.status = 201
             /\ AssignRoleHandler(c, u, r))
            => \A v \in ReqUserIds \ {u} : getUserPermissions(v)' = getUserPermissions(v)
       /\ \A u \in ReqUserIds, r \in ReqRoleIds :
            (/\ Handles("removeRole")
             /\ resp'.status = 200
             /\ RemoveRoleHandler(u, r))
            => \A v \in ReqUserIds \ {u} : getUserPermissions(v)' = getUserPermissions(v)
       /\ \A r \in ReqRoleIds, p \in ReqPermissionIds :
            (/\ Handles("assignPermission")
             /\ resp'.status = 201
             /\ AssignPermissionHandler(r, p))
            => \A v \in ReqUserIds :
                  r \notin RolesHeld(v) => getUserPermissions(v)' = getUserPermissions(v)
       /\ \A r \in ReqRoleIds, p \in ReqPermissionIds :
            (/\ Handles("removePermission")
             /\ resp'.status = 200
             /\ RemovePermissionHandler(r, p))
            => \A v \in ReqUserIds :
                  r \notin RolesHeld(v) => getUserPermissions(v)' = getUserPermissions(v)
      ]_vars

\* a permission was removed from a role: a user holding the role resolves to
\* less than the seed gave it, a user not holding it to what the seed gave it
C30_Witness ==
    /\ resp = [op |-> "removePermission", status |-> 200, perms |-> EmptyBag]
    /\ \E u, v \in DOMAIN users :
          /\ u # v
          /\ \E k \in DOMAIN SeededUserRoles(users) :
                /\ k[1] = u
                /\ RolesHeld(u) = {k[2]}
                /\ DOMAIN getUserPermissions(u) # ROLES[k[2]].permissions
          /\ \E k \in DOMAIN SeededUserRoles(users) :
                /\ k[1] = v
                /\ RolesHeld(v) = {k[2]}
                /\ k[2] \notin RolesHeld(u)
                /\ DOMAIN getUserPermissions(v) = ROLES[k[2]].permissions

=============================================================================
